---- MODULE Spec2Model ----
(***************************************************************************)
(* Model of scrape.py: the RunlahParser markup visitor (handle_starttag,   *)
(* handle_data, handle_endtag), the post-pass of scrape() and the run of   *)
(* main().                                                                 *)
(*                                                                         *)
(* Strings are sequences of lexemes.  An href or src is a sequence of     *)
(* path lexemes ("/", a word, "\n").  A text is a sequence of tokens: a    *)
(* word, a whitespace, a punctuation mark or a run of decimal digits.  A   *)
(* date string produced by strftime is a sequence of character codes, so   *)
(* that Python's string comparison is the lexicographic order on it.       *)
(* The empty string is the empty sequence.                                 *)
(***************************************************************************)
EXTENDS Integers, Sequences, FiniteSets, TLC

(* ---------------------------------------------------------------------- *)
(* Bounds of the model                                                     *)
(* ---------------------------------------------------------------------- *)
MaxEvents == 6

(* ---------------------------------------------------------------------- *)
(* Attribute values (href, src)                                            *)
(* ---------------------------------------------------------------------- *)
BASE == <<"https://www.runlah.com">>

\* words made only of the characters [A-Za-z0-9_]
TokenWords == {"en", "th", "race1", "race_2", "calendar", "results", "promote",
               "about", "terms", "privacy", "user", "registers", "settings",
               "teams", "lanna", "images", "event"}

\* the exclusion list of handle_starttag
NavPaths == { <<"/", "en">>,
              <<"/", "en", "/", "calendar">>,
              <<"/", "en", "/", "results">>,
              <<"/", "en", "/", "promote">>,
              <<"/", "en", "/", "about">>,
              <<"/", "en", "/", "terms">>,
              <<"/", "en", "/", "privacy">>,
              <<"/", "en", "/", "user", "/", "registers">>,
              <<"/", "en", "/", "user", "/", "settings">> }

\* s[i..j] of a sequence
Slice(s, i, j) == [k \in 1..(j - i + 1) |-> s[i + k - 1]]

\* Python's  sub in s  for sequences of lexemes
Contains(s, sub) ==
    \E i \in 1..(Len(s) - Len(sub) + 1) : Slice(s, i, i + Len(sub) - 1) = sub

\* re.match(r"^/en/[A-Za-z0-9_]+$", href): "$" matches at the end of the
\* string and also just before a newline that ends the string
MatchesEventPath(href) ==
    LET n == IF Len(href) > 0 /\ href[Len(href)] = "\n" THEN Len(href) - 1 ELSE Len(href)
    IN  /\ n >= 4
        /\ Slice(href, 1, 3) = <<"/", "en", "/">>
        /\ \A i \in 4..n : href[i] \in TokenWords

\* the whole condition under which an <a> open-tag may start a card
IsRaceLink(tag, href) ==
    /\ tag = "a"
    /\ href # <<>>
    /\ MatchesEventPath(href)
    /\ ~Contains(href, <<"/", "teams", "/">>)
    /\ href \notin NavPaths

\* the condition under which an <img> src is taken as the banner
IsEventImage(src) ==
    /\ src # <<>>
    /\ Contains(src, <<"/", "images", "/", "event", "/">>)

\* src.startswith("/") -> BASE + src
ResolveSrc(src) == IF src[1] = "/" THEN BASE \o src ELSE src

(* ---------------------------------------------------------------------- *)
(* Texts                                                                   *)
(* ---------------------------------------------------------------------- *)
W(s) == [t |-> "w", s |-> s, d |-> <<>>]
N(d) == [t |-> "n", s |-> "", d |-> d]
SP == [t |-> "sp", s |-> " ", d |-> <<>>]
COMMA == [t |-> "p", s |-> ",", d |-> <<>>]
DASH == [t |-> "p", s |-> "-", d |-> <<>>]

MonthNames == <<"January", "February", "March", "April", "May", "June", "July",
                "August", "September", "October", "November", "December">>

IsMonth(tok) == tok.t = "w" /\ \E m \in 1..12 : MonthNames[m] = tok.s

MonthOf(tok) == CHOOSE m \in 1..12 : MonthNames[m] = tok.s

\* number of characters of the words the model uses
WordLen(s) ==
    CASE s \in {"Run", "Doi", "Mai", "May", "all"} -> 3
      [] s \in {"now!", "June", "July", "View"} -> 4
      [] s \in {"March", "April", "other"} -> 5
      [] s \in {"Detail", "Suthep", "Chiang", "August"} -> 6
      [] s \in {"Mueang,", "January", "October"} -> 7
      [] s \in {"Register", "province", "Province", "February", "November", "December"} -> 8
      [] s \in {"September", "events..."} -> 9

\* len(text)
RECURSIVE TextLen(_)
TextLen(text) ==
    IF text = <<>> THEN 0
    ELSE (IF Head(text).t = "w" THEN WordLen(Head(text).s)
          ELSE IF Head(text).t = "n" THEN Len(Head(text).d)
          ELSE 1) + TextLen(Tail(text))

\* data.strip()
RECURSIVE LStrip(_)
LStrip(text) ==
    IF text # <<>> /\ Head(text).t = "sp" THEN LStrip(Tail(text)) ELSE text

RECURSIVE RStrip(_)
RStrip(text) ==
    IF text # <<>> /\ text[Len(text)].t = "sp"
    THEN RStrip(SubSeq(text, 1, Len(text) - 1)) ELSE text

Strip(text) == RStrip(LStrip(text))

\* the texts that are never taken as a name
Boilerplate == { <<W("Detail")>>,
                 <<W("Register"), SP, W("now!")>>,
                 <<W("View"), SP, W("all"), SP, W("other"), SP, W("events...")>> }

\* the condition under which a text becomes the name
IsNameText(text) == TextLen(text) > 3 /\ text \notin Boilerplate

\* index of the first token at or after i that is not whitespace (\s+ is
\* matched when the result is greater than i)
AfterWs(text, i) ==
    CHOOSE j \in i..(Len(text) + 1) :
        /\ \A k \in i..(j - 1) : text[k].t = "sp"
        /\ j = Len(text) + 1 \/ text[j].t # "sp"

IsDigits(tok, lo, hi) == tok.t = "n" /\ Len(tok.d) >= lo /\ Len(tok.d) <= hi

\* ^(Month\s+\d{1,2},\s+\d{4})$
MatchMonthDayYear(text) ==
    /\ Len(text) >= 6
    /\ IsMonth(text[1])
    /\ LET j == AfterWs(text, 2)
       IN  /\ j > 2
           /\ j + 3 <= Len(text)
           /\ IsDigits(text[j], 1, 2)
           /\ text[j + 1] = COMMA
           /\ LET k == AfterWs(text, j + 2)
              IN  /\ k > j + 2
                  /\ k = Len(text)
                  /\ IsDigits(text[k], 4, 4)

\* ^(\d{1,2}(?:-\d{1,2})?\s+Month\s+\d{4})$
MatchDayMonthYear(text) ==
    /\ Len(text) >= 5
    /\ IsDigits(text[1], 1, 2)
    /\ LET i == IF Len(text) >= 3 /\ text[2] = DASH /\ IsDigits(text[3], 1, 2)
                THEN 4 ELSE 2
           j == AfterWs(text, i)
       IN  /\ j > i
           /\ j + 2 <= Len(text)
           /\ IsMonth(text[j])
           /\ LET k == AfterWs(text, j + 1)
              IN  /\ k > j + 1
                  /\ k = Len(text)
                  /\ IsDigits(text[k], 4, 4)

\* int() of a run of digits
RECURSIVE Value(_)
Value(d) == IF d = <<>> THEN 0 ELSE 10 * Value(SubSeq(d, 1, Len(d) - 1)) + d[Len(d)]

\* the (year, month, day) fields the two patterns hand to strptime
FieldsMonthDayYear(text) ==
    [year |-> Value(text[Len(text)].d),
     month |-> MonthOf(text[1]),
     day |-> Value(text[AfterWs(text, 2)].d)]

FieldsDayMonthYear(text) ==
    [year |-> Value(text[Len(text)].d),
     month |-> MonthOf(text[AfterWs(text, IF text[2] = DASH THEN 4 ELSE 2)]),
     day |-> Value(text[1].d)]

IsLeap(y) == (y % 4 = 0 /\ y % 100 # 0) \/ y % 400 = 0

DaysInMonth(m, y) ==
    IF m = 2 THEN (IF IsLeap(y) THEN 29 ELSE 28)
    ELSE IF m \in {4, 6, 9, 11} THEN 30 ELSE 31

\* datetime.strptime succeeds: %d takes 1..31, datetime() takes years 1..9999
\* and the days the month has; otherwise ValueError
StrptimeOk(f) ==
    /\ f.day >= 1 /\ f.day <= 31
    /\ f.year >= 1
    /\ f.day <= DaysInMonth(f.month, f.year)

\* character codes
Hyphen == 45
Digit(n) == 48 + n

Pad2(n) == <<Digit(n \div 10), Digit(n % 10)>>

Pad4(n) == <<Digit(n \div 1000), Digit((n \div 100) % 10), Digit((n \div 10) % 10), Digit(n % 10)>>

RECURSIVE Decimal(_)
Decimal(n) == IF n < 10 THEN <<Digit(n)>> ELSE Decimal(n \div 10) \o <<Digit(n % 10)>>

\* dt.strftime("%Y-%m-%d"): %m and %d are two digits; %Y is what the C
\* library prints for the year: four digits (padyear) or the bare number
Strftime(f, padyear) ==
    (IF padyear THEN Pad4(f.year) ELSE Decimal(f.year))
        \o <<Hyphen>> \o Pad2(f.month) \o <<Hyphen>> \o Pad2(f.day)

\* "Chiang Mai" in text and "province" in text.lower()
IsLocationText(text) ==
    /\ Contains(text, <<W("Chiang"), SP, W("Mai")>>)
    /\ \E i \in 1..Len(text) : text[i] \in {W("province"), W("Province")}

\* text.replace(" province", "")
RECURSIVE RemoveProvince(_)
RemoveProvince(text) ==
    IF Len(text) < 2 THEN text
    ELSE IF text[1] = SP /\ text[2] = W("province")
         THEN RemoveProvince(SubSeq(text, 3, Len(text)))
         ELSE <<text[1]>> \o RemoveProvince(Tail(text))

LocationOf(text) == Strip(RemoveProvince(text))

(* ---------------------------------------------------------------------- *)
(* RunlahParser                                                            *)
(* ---------------------------------------------------------------------- *)
VARIABLES
    pc,            \* position of main(): start, read, feed, print, open, dump, summary, done, error
    page,          \* the page the server holds, when it is a fixed one
    html,          \* the part of the fetched page not yet fed to the parser
    nfed,          \* number of events fed so far
    padyear,       \* whether the C library's %Y pads the year to four digits
    current_race,  \* <<>> for None, <<r>> for an open candidate r
    races,         \* parser.races
    unique,        \* the list scrape() returns
    conn,          \* the HTTP response: none, open, closed
    file,          \* races.json: untouched, open, closed
    dumped,        \* the "races" list written to races.json
    stdout,        \* the lines printed
    exc            \* the exception that ended the run, or "none"

vars == <<pc, page, html, nfed, padyear, current_race, races, unique, conn, file, dumped, stdout, exc>>

None == <<>>

\* the dict a qualifying <a> creates
NewRace(href) ==
    [name |-> <<>>, url |-> BASE \o href, image |-> <<>>,
     date |-> <<>>, dateDisplay |-> <<>>, location |-> <<>>]

\* an open-tag handler that starts a new candidate at every qualifying anchor
StartTagRaceRestart(cur, tag, href, src) ==
    LET c1 == IF IsRaceLink(tag, href) THEN <<NewRace(href)>> ELSE cur
    IN  IF tag = "img" /\ c1 # None /\ c1[1].image = <<>> /\ IsEventImage(src)
        THEN <<[c1[1] EXCEPT !.image = ResolveSrc(src)]>>
        ELSE c1

\* handle_starttag: the value of current_race after the open-tag
StartTagRace(cur, tag, href, src) ==
    LET c1 == IF IsRaceLink(tag, href) /\ cur = None THEN <<NewRace(href)>> ELSE cur
    IN  IF tag = "img" /\ c1 # None /\ c1[1].image = <<>> /\ IsEventImage(src)
        THEN <<[c1[1] EXCEPT !.image = ResolveSrc(src)]>>
        ELSE c1

\* a name step in which the last qualifying text wins
SetNameLast(r, text) ==
    IF IsNameText(text) THEN [r EXCEPT !.name = text] ELSE r

\* the name step of handle_data
SetName(r, text) ==
    IF r.name = <<>> /\ IsNameText(text) THEN [r EXCEPT !.name = text] ELSE r

\* a date step that keeps a dateDisplay already set
ApplyDateKeepDisplay(r, text, f, pad) ==
    LET shown == IF r.dateDisplay = <<>> THEN text ELSE r.dateDisplay
    IN  IF StrptimeOk(f)
        THEN [r EXCEPT !.dateDisplay = shown, !.date = Strftime(f, pad)]
        ELSE [r EXCEPT !.dateDisplay = shown]

\* one date pattern of handle_data: dateDisplay is set on a match, date only
\* when strptime accepts the fields
ApplyDate(r, text, f, pad) ==
    IF StrptimeOk(f)
    THEN [r EXCEPT !.dateDisplay = text, !.date = Strftime(f, pad)]
    ELSE [r EXCEPT !.dateDisplay = text]

\* the date step of handle_data
SetDate(r, text, pad) ==
    IF r.date # <<>> THEN r
    ELSE LET r1 == IF MatchMonthDayYear(text)
                   THEN ApplyDate(r, text, FieldsMonthDayYear(text), pad) ELSE r
         IN  IF MatchDayMonthYear(text) /\ r1.date = <<>>
             THEN ApplyDate(r1, text, FieldsDayMonthYear(text), pad) ELSE r1

\* the location step of handle_data
SetLocation(r, text) ==
    IF r.location = <<>> /\ IsLocationText(text)
    THEN [r EXCEPT !.location = LocationOf(text)] ELSE r

\* handle_data: the value of current_race after the text
DataRace(cur, data, pad) ==
    LET text == Strip(data)
    IN  IF text = <<>> \/ cur = None THEN cur
        ELSE <<SetLocation(SetDate(SetName(cur[1], text), text, pad), text)>>

\* a close-tag that asks for the name only
FinalizableNameOnly(r) == r.name # <<>>

\* handle_endtag: the candidate has enough data
Finalizable(r) == r.name # <<>> /\ r.date # <<>>

\* a close-tag without the duplicate check
IsDuplicateNever(r, rs) == FALSE

\* a close-tag that looks for the whole record instead of its url
IsDuplicateRecord(r, rs) == \E i \in 1..Len(rs) : rs[i] = r

\* handle_endtag: a record with this url is already in the list
IsDuplicate(r, rs) == \E i \in 1..Len(rs) : rs[i].url = r.url

\* a close-tag without the fallback
KeepLocation(r) == r

\* handle_endtag: the location fallback
CleanLocation(r) ==
    IF r.location = <<>> THEN [r EXCEPT !.location = <<W("Chiang"), SP, W("Mai")>>] ELSE r

\* a close-tag that lets the later record of a url replace the earlier one
EndTagRacesLastWins(cur, rs) ==
    IF cur # None /\ Finalizable(cur[1])
    THEN IF IsDuplicate(cur[1], rs)
         THEN [i \in 1..Len(rs) |->
                  IF rs[i].url = cur[1].url THEN CleanLocation(cur[1]) ELSE rs[i]]
         ELSE Append(rs, CleanLocation(cur[1]))
    ELSE rs

\* handle_endtag: the list after the close-tag
EndTagRaces(cur, rs) ==
    IF cur # None /\ Finalizable(cur[1]) /\ ~IsDuplicate(cur[1], rs)
    THEN Append(rs, CleanLocation(cur[1])) ELSE rs

\* handle_endtag: the value of current_race after the close-tag
EndTagRace(cur) ==
    IF cur # None /\ Finalizable(cur[1]) THEN None ELSE cur

(* ---------------------------------------------------------------------- *)
(* scrape(): the post-pass                                                 *)
(* ---------------------------------------------------------------------- *)
\* Python's  a <= b  on strings
RECURSIVE StrLeq(_, _)
StrLeq(a, b) ==
    IF a = <<>> THEN TRUE
    ELSE IF b = <<>> THEN FALSE
    ELSE IF Head(a) # Head(b) THEN Head(a) < Head(b)
    ELSE StrLeq(Tail(a), Tail(b))

\* an insertion that puts r in front of the elements with an equal key
RECURSIVE InsertBeforeEqual(_, _)
InsertBeforeEqual(r, rs) ==
    IF rs = <<>> THEN <<r>>
    ELSE IF StrLeq(Head(rs).date, r.date) /\ Head(rs).date # r.date
         THEN <<Head(rs)>> \o InsertBeforeEqual(r, Tail(rs))
    ELSE <<r>> \o rs

\* insertion of r behind every element whose key is not greater
RECURSIVE InsertByDate(_, _)
InsertByDate(r, rs) ==
    IF rs = <<>> THEN <<r>>
    ELSE IF StrLeq(Head(rs).date, r.date) THEN <<Head(rs)>> \o InsertByDate(r, Tail(rs))
    ELSE <<r>> \o rs

\* sorted(parser.races, key=lambda r: r["date"]): a stable sort
RECURSIVE SortedByDate(_)
SortedByDate(rs) ==
    IF rs = <<>> THEN <<>>
    ELSE InsertByDate(rs[Len(rs)], SortedByDate(SubSeq(rs, 1, Len(rs) - 1)))

\* the loop that keeps the first record of every url
RECURSIVE DedupByUrl(_, _)
DedupByUrl(rs, seen) ==
    IF rs = <<>> THEN <<>>
    ELSE IF Head(rs).url \in seen THEN DedupByUrl(Tail(rs), seen)
    ELSE <<Head(rs)>> \o DedupByUrl(Tail(rs), seen \cup {Head(rs).url})

PostPass(rs) == DedupByUrl(SortedByDate(rs), {})

(* ---------------------------------------------------------------------- *)
(* Markup events and the pages of the model                                *)
(* ---------------------------------------------------------------------- *)
StartA(href) == [type |-> "start", tag |-> "a", href |-> href, src |-> <<>>, data |-> <<>>]
StartImg(src) == [type |-> "start", tag |-> "img", href |-> <<>>, src |-> src, data |-> <<>>]
StartDiv == [type |-> "start", tag |-> "div", href |-> <<>>, src |-> <<>>, data |-> <<>>]
Text(data) == [type |-> "data", tag |-> "", href |-> <<>>, src |-> <<>>, data |-> data]
End(tag) == [type |-> "end", tag |-> tag, href |-> <<>>, src |-> <<>>, data |-> <<>>]

Race1 == <<"/", "en", "/", "race1">>
Race2 == <<"/", "en", "/", "race_2">>
NavCalendar == <<"/", "en", "/", "calendar">>
NavCalendarNL == <<"/", "en", "/", "calendar", "\n">>
NavSettings == <<"/", "en", "/", "user", "/", "settings">>
TeamLanna == <<"/", "en", "/", "teams", "/", "lanna">>
OtherLang == <<"/", "th", "/", "race1">>

Hrefs == {Race1, Race2, NavCalendar, NavCalendarNL, NavSettings, TeamLanna, OtherLang, <<>>}

Banner == <<"/", "images", "/", "event", "/", "banner.jpg">>
CdnBanner == <<"https://cdn.runlah.com", "/", "images", "/", "event", "/", "b.jpg">>
Logo == <<"/", "images", "/", "logo.png">>

Srcs == {Banner, CdnBanner, Logo}

MonthDayYear(m, d, y) == <<W(MonthNames[m]), SP, N(d), COMMA, SP, N(y)>>
DayMonthYear(d, m, y) == <<N(d), SP, W(MonthNames[m]), SP, N(y)>>
DayRange(d1, d2, m, y) == <<N(d1), DASH, N(d2), SP, W(MonthNames[m]), SP, N(y)>>

DoiSuthep == <<W("Doi"), SP, W("Suthep")>>
ChiangMaiProvince == <<W("Chiang"), SP, W("Mai"), SP, W("province")>>
MueangProvince == <<W("Mueang,"), SP, W("Chiang"), SP, W("Mai"), SP, W("province")>>
CapitalProvince == <<W("Chiang"), SP, W("Mai"), SP, W("Province")>>

NameTexts == {DoiSuthep, <<SP, W("Suthep"), SP, W("Run"), SP>>}

ValidDateTexts == { MonthDayYear(1, <<1, 0>>, <<2, 0, 2, 6>>),
                    MonthDayYear(3, <<5>>, <<2, 0, 2, 5>>),
                    MonthDayYear(1, <<1, 0>>, <<0, 0, 0, 5>>),
                    DayRange(<<1, 2>>, <<1, 3>>, 4, <<2, 0, 2, 5>>),
                    DayRange(<<3, 0>>, <<3, 1>>, 4, <<2, 0, 2, 5>>),
                    DayMonthYear(<<2, 9>>, 2, <<2, 0, 2, 4>>) }

BadDateTexts == { MonthDayYear(2, <<3, 0>>, <<2, 0, 2, 5>>),
                  MonthDayYear(1, <<0>>, <<2, 0, 2, 6>>),
                  DayRange(<<3, 1>>, <<1>>, 4, <<2, 0, 2, 5>>),
                  DayMonthYear(<<2, 9>>, 2, <<1, 9, 0, 0>>) }

LocationTexts == {ChiangMaiProvince, MueangProvince, CapitalProvince}

OtherTexts == { <<SP>>, <<W("Detail")>>, <<W("Run")>> }

Texts == NameTexts \cup ValidDateTexts \cup BadDateTexts \cup LocationTexts \cup OtherTexts

\* the events a free document is made of
Events ==
    {StartA(h) : h \in Hrefs} \cup {StartImg(s) : s \in Srcs} \cup {StartDiv}
        \cup {Text(t) : t \in Texts} \cup {End("a"), End("div")}

\* a text in an element of its own
Elem(t) == <<StartDiv, Text(t), End("div")>>

\* one anchor holding an image, a name, a date and a location, each as its own element
CardPage(h, s, nm, dt, loc) ==
    <<StartA(h), StartImg(s)>> \o Elem(nm) \o Elem(dt) \o Elem(loc) \o <<End("a")>>

\* a well-formed candidate region: name and date in separate elements
Region(h, nm, dt) == <<StartA(h)>> \o Elem(nm) \o Elem(dt) \o <<End("a")>>

\* what may precede a region: nothing, a bare text, an anchor that never got
\* a name or a date, an anchor that got only a name, another complete region
Prefixes ==
    { <<>>,
      <<Text(DoiSuthep)>>,
      <<StartA(Race1), End("a")>>,
      <<StartA(Race1)>> \o Elem(DoiSuthep) \o <<End("a")>>,
      Region(Race1, DoiSuthep, MonthDayYear(3, <<5>>, <<2, 0, 2, 5>>)) }

CardPages ==
    { CardPage(h, s, DoiSuthep, dt, loc) :
        h \in {Race1}, s \in {Banner, CdnBanner},
        dt \in {MonthDayYear(1, <<1, 0>>, <<2, 0, 2, 6>>), DayRange(<<1, 2>>, <<1, 3>>, 4, <<2, 0, 2, 5>>)},
        loc \in LocationTexts }

RegionPages ==
    { pre \o Region(Race2, DoiSuthep, dt) :
        pre \in Prefixes,
        dt \in {MonthDayYear(1, <<1, 0>>, <<2, 0, 2, 6>>), MonthDayYear(3, <<5>>, <<2, 0, 2, 5>>)} }

\* a region whose only date text names an impossible day
BadDatePages == { Region(Race2, DoiSuthep, dt) : dt \in BadDateTexts }

SuthepRun == <<W("Suthep"), SP, W("Run")>>

\* an anchor inside an anchor: the name under the outer one, the date under
\* the inner one
NestedPages ==
    { <<StartA(Race1)>> \o Elem(DoiSuthep) \o <<StartA(Race2)>> \o Elem(dt)
          \o <<End("a"), End("a")>> :
        dt \in {MonthDayYear(1, <<1, 0>>, <<2, 0, 2, 6>>), DayRange(<<1, 2>>, <<1, 3>>, 4, <<2, 0, 2, 5>>)} }

\* two complete regions for the same url, with different names and dates
DupPages ==
    { Region(Race1, DoiSuthep, MonthDayYear(1, <<1, 0>>, <<2, 0, 2, 6>>))
          \o Region(Race1, SuthepRun, dt) :
        dt \in {MonthDayYear(3, <<5>>, <<2, 0, 2, 5>>), DayRange(<<1, 2>>, <<1, 3>>, 4, <<2, 0, 2, 5>>)} }

\* pages whose only anchor is a navigation link, a team link, a link outside
\* /en/ or a link without href, and a page without any anchor
NoAnchorPages ==
    { Region(h, DoiSuthep, MonthDayYear(1, <<1, 0>>, <<2, 0, 2, 6>>)) :
        h \in {NavCalendar, NavCalendarNL, NavSettings, TeamLanna, OtherLang, <<>>} }
      \cup { <<StartImg(Banner)>> \o Elem(DoiSuthep) \o Elem(MonthDayYear(1, <<1, 0>>, <<2, 0, 2, 6>>)) }

Pages == CardPages \cup RegionPages \cup BadDatePages \cup NestedPages \cup DupPages \cup NoAnchorPages

(* ---------------------------------------------------------------------- *)
(* The run: main() calling scrape()                                        *)
(* ---------------------------------------------------------------------- *)
Init ==
    /\ pc = "start"
    /\ page \in Pages \cup {<<>>}
    /\ html = <<>>
    /\ nfed = 0
    /\ padyear \in BOOLEAN
    /\ current_race = None
    /\ races = <<>>
    /\ unique = <<>>
    /\ conn = "none"
    /\ file = "untouched"
    /\ dumped = <<>>
    /\ stdout = <<>>
    /\ exc = "none"

\* urllib.request.urlopen(req, timeout=30) returns a response
UrlOpenOk ==
    /\ pc = "start"
    /\ pc' = "read"
    /\ conn' = "open"
    /\ UNCHANGED <<page, html, nfed, padyear, current_race, races, unique, file, dumped, stdout, exc>>

\* urlopen raises (network error, bad status, timeout): the run ends
UrlOpenFail ==
    /\ pc = "start"
    /\ exc' = "NetworkError"
    /\ pc' = "error"
    /\ UNCHANGED <<page, html, nfed, padyear, current_race, races, unique, conn, file, dumped, stdout>>

\* resp.read().decode("utf-8") succeeds; the with block closes the response
ReadOk ==
    /\ pc = "read"
    /\ pc' = "feed"
    /\ html' = page
    /\ conn' = "closed"
    /\ UNCHANGED <<page, nfed, padyear, current_race, races, unique, file, dumped, stdout, exc>>

\* a fetch whose failure is swallowed: the run goes on with an empty page
ReadFailCaught ==
    /\ pc = "read"
    /\ exc' \in {"NetworkError", "DecodeError"}
    /\ pc' = "feed"
    /\ conn' = "closed"
    /\ UNCHANGED <<page, html, nfed, padyear, current_race, races, unique, file, dumped, stdout>>

\* read() or decode() raises; the with block closes the response
ReadFail ==
    /\ pc = "read"
    /\ exc' \in {"NetworkError", "DecodeError"}
    /\ pc' = "error"
    /\ conn' = "closed"
    /\ UNCHANGED <<page, html, nfed, padyear, current_race, races, unique, file, dumped, stdout>>

\* the events parser.feed may deliver next: the next one of a fixed page, or
\* any event while the document is left open
NextEvents ==
    IF html # <<>> THEN {Head(html)}
    ELSE IF page = <<>> /\ nfed < MaxEvents THEN Events
    ELSE {}

Consume ==
    /\ html' = IF html # <<>> THEN Tail(html) ELSE html
    /\ nfed' = nfed + 1

FeedStartTag ==
    /\ pc = "feed"
    /\ \E e \in NextEvents :
        /\ e.type = "start"
        /\ current_race' = StartTagRace(current_race, e.tag, e.href, e.src)
    /\ Consume
    /\ UNCHANGED <<pc, page, padyear, races, unique, conn, file, dumped, stdout, exc>>

FeedData ==
    /\ pc = "feed"
    /\ \E e \in NextEvents :
        /\ e.type = "data"
        /\ current_race' = DataRace(current_race, e.data, padyear)
    /\ Consume
    /\ UNCHANGED <<pc, page, padyear, races, unique, conn, file, dumped, stdout, exc>>

FeedEndTag ==
    /\ pc = "feed"
    /\ \E e \in NextEvents : e.type = "end"
    /\ races' = EndTagRaces(current_race, races)
    /\ current_race' = EndTagRace(current_race)
    /\ Consume
    /\ UNCHANGED <<pc, page, padyear, unique, conn, file, dumped, stdout, exc>>

\* the end of the document: sort, deduplicate, return
ScrapeReturn ==
    /\ pc = "feed"
    /\ html = <<>>
    /\ unique' = PostPass(races)
    /\ pc' = "print"
    /\ UNCHANGED <<page, html, nfed, padyear, current_race, races, conn, file, dumped, stdout, exc>>

FoundLine(n) == [k |-> "found", n |-> n, date |-> <<>>, name |-> <<>>]
RaceLine(r) == [k |-> "race", n |-> 0, date |-> r.date, name |-> r.name]

\* print(f"Found {len(races)} races in Chiang Mai")
PrintFound ==
    /\ pc = "print"
    /\ stdout' = Append(stdout, FoundLine(Len(unique)))
    /\ pc' = "open"
    /\ UNCHANGED <<page, html, nfed, padyear, current_race, races, unique, conn, file, dumped, exc>>

\* open("races.json", "w") succeeds
OpenOk ==
    /\ pc = "open"
    /\ file' = "open"
    /\ pc' = "dump"
    /\ UNCHANGED <<page, html, nfed, padyear, current_race, races, unique, conn, dumped, stdout, exc>>

\* open raises: the run ends
OpenFail ==
    /\ pc = "open"
    /\ exc' = "FileWriteError"
    /\ pc' = "error"
    /\ UNCHANGED <<page, html, nfed, padyear, current_race, races, unique, conn, file, dumped, stdout>>

\* json.dump writes the document; the with block closes the file
DumpOk ==
    /\ pc = "dump"
    /\ dumped' = unique
    /\ file' = "closed"
    /\ pc' = "summary"
    /\ UNCHANGED <<page, html, nfed, padyear, current_race, races, unique, conn, stdout, exc>>

\* a failed write that leaves the file open
DumpFailLeavesOpen ==
    /\ pc = "dump"
    /\ exc' = "FileWriteError"
    /\ pc' = "error"
    /\ UNCHANGED <<page, html, nfed, padyear, current_race, races, unique, conn, file, dumped, stdout>>

\* json.dump raises; the with block closes the file
DumpFail ==
    /\ pc = "dump"
    /\ file' = "closed"
    /\ exc' = "FileWriteError"
    /\ pc' = "error"
    /\ UNCHANGED <<page, html, nfed, padyear, current_race, races, unique, conn, dumped, stdout>>

\* the summary loop
PrintSummary ==
    /\ pc = "summary"
    /\ stdout' = stdout \o [i \in 1..Len(unique) |-> RaceLine(unique[i])]
    /\ pc' = "done"
    /\ UNCHANGED <<page, html, nfed, padyear, current_race, races, unique, conn, file, dumped, exc>>

Next ==
    \/ UrlOpenOk
    \/ UrlOpenFail
    \/ ReadOk
    \/ ReadFail
    \/ FeedStartTag
    \/ FeedData
    \/ FeedEndTag
    \/ ScrapeReturn
    \/ PrintFound
    \/ OpenOk
    \/ OpenFail
    \/ DumpOk
    \/ DumpFail
    \/ PrintSummary

Spec == Init /\ [][Next]_vars

(* ---------------------------------------------------------------------- *)
(* Properties                                                              *)
(* ---------------------------------------------------------------------- *)
Records(rs) == {rs[i] : i \in 1..Len(rs)}

Returned == pc \in {"print", "open", "dump", "summary", "done"} \/ exc = "FileWriteError"

ChiangMai == <<W("Chiang"), SP, W("Mai")>>

\* the three parts of a region at the end of a page
RegionHref(p) == p[Len(p) - 7].href
RegionName(p) == Strip(p[Len(p) - 5].data)
RegionDate(p) == Strip(p[Len(p) - 2].data)

\* C1: for a page that ends with a well-formed candidate region whose url
\* was not emitted before, whatever precedes the region, the list scrape
\* returns holds exactly one record for the region, with the region's url,
\* its first qualifying text as name and its date text as date/dateDisplay.
C1_RegionYieldsItsRecord ==
    (Returned /\ page \in RegionPages) =>
        /\ Cardinality({i \in 1..Len(unique) : unique[i].url = BASE \o RegionHref(page)}) = 1
        /\ \A r \in Records(unique) :
            r.url = BASE \o RegionHref(page) =>
                /\ r.name = RegionName(page)
                /\ r.dateDisplay = RegionDate(page)
                /\ r.date = Strftime(FieldsMonthDayYear(RegionDate(page)), padyear)

NoDuplicateUrl(rs) == \A i, j \in 1..Len(rs) : rs[i].url = rs[j].url => i = j

\* C2: no two records of the parser's list share a url, and no two records
\* of the list scrape returns share a url.
C2_UrlsUnique == NoDuplicateUrl(races) /\ NoDuplicateUrl(unique)

\* a complete candidate for a url already in the list, with another name and
\* date than the record of that url, is about to be closed
C2_Witness ==
    /\ current_race # None
    /\ Finalizable(current_race[1])
    /\ Len(races) = 1
    /\ races[1].url = current_race[1].url
    /\ races[1].date # current_race[1].date

\* C3: every record of the parser's list and of the returned list has a
\* non-empty name and a non-empty date; a candidate whose date text was
\* never parseable is not appended.
C3_NameAndDatePresent ==
    /\ \A r \in Records(races) \cup Records(unique) : r.name # <<>> /\ r.date # <<>>
    /\ (page \in BadDatePages /\ pc # "start" /\ pc # "read") => races = <<>>

\* the run on a region whose date names an impossible day ended with the
\* named candidate still unparsed and nothing returned
C3_Witness ==
    /\ page \in BadDatePages
    /\ pc = "done"
    /\ current_race # None
    /\ current_race[1].name # <<>>
    /\ current_race[1].dateDisplay # <<>>
    /\ unique = <<>>

\* the image, name, date and location texts of a card page
CardSrc(p) == p[2].src
CardName(p) == Strip(p[4].data)
CardDate(p) == Strip(p[7].data)
CardLocation(p) == Strip(p[10].data)

CardFields(p) ==
    IF MatchMonthDayYear(CardDate(p)) THEN FieldsMonthDayYear(CardDate(p))
    ELSE FieldsDayMonthYear(CardDate(p))

\* C4: a page of one qualifying anchor holding an event image, a name, a
\* date and a location text, each as its own element, yields exactly one
\* record: url BASE + href, the absolute image url, the name text, the ISO
\* date, the date text, and the location text without " province".
C4_CardYieldsFullRecord ==
    (Returned /\ page \in CardPages) =>
        unique = << [name |-> CardName(page),
                     url |-> BASE \o page[1].href,
                     image |-> ResolveSrc(CardSrc(page)),
                     date |-> Pad4(CardFields(page).year) \o <<Hyphen>>
                                \o Pad2(CardFields(page).month) \o <<Hyphen>>
                                \o Pad2(CardFields(page).day),
                     dateDisplay |-> CardDate(page),
                     location |-> LocationOf(CardLocation(page))] >>

\* an href that is /en/ followed by one token of letters, digits or
\* underscore, and is neither a navigation path nor a team link
QualifyingHref(href) ==
    /\ Len(href) >= 4
    /\ Slice(href, 1, 3) = <<"/", "en", "/">>
    /\ \A i \in 4..Len(href) : href[i] \in TokenWords
    /\ href \notin NavPaths
    /\ ~Contains(href, <<"/", "teams", "/">>)

\* C5: only a qualifying anchor open-tag creates a candidate: a step from
\* Idle to Open is made for an href that is /en/ + one token and is neither
\* a navigation path nor a team link.
C5_OnlyQualifyingAnchorsOpen ==
    [][(current_race = None /\ current_race' # None)
          => QualifyingHref(Tail(current_race'[1].url))]_vars

\* position of the record of a url in a list
Pos(rs, url) == CHOOSE k \in 1..Len(rs) : rs[k].url = url

\* C6: the list scrape returns is sorted non-decreasing by the date string,
\* and records with equal date keep the order in which they were finalized.
C6_SortedAndStable ==
    \A i, j \in 1..Len(unique) :
        i < j =>
            /\ StrLeq(unique[i].date, unique[j].date)
            /\ unique[i].date = unique[j].date
                  => Pos(races, unique[i].url) < Pos(races, unique[j].url)

\* scrape returned two records in the opposite of their document order
C6_Witness ==
    /\ Returned
    /\ Len(unique) = 2
    /\ Len(races) = 2
    /\ unique[1] = races[2]
    /\ unique[2] = races[1]

FetchErrors == {"NetworkError", "DecodeError"}

\* C7: after a failed fetch (network read or decode) the run is in the error
\* state, races.json is untouched and nothing is printed; the error state is
\* final; the file is opened only after fetch and parse have completed.
C7_FetchFailureWritesNothing ==
    /\ [](exc \in FetchErrors =>
            pc = "error" /\ file = "untouched" /\ dumped = <<>> /\ stdout = <<>>)
    /\ [](file # "untouched" =>
            /\ exc \notin FetchErrors
            /\ conn = "closed"
            /\ html = <<>>
            /\ pc \in {"dump", "summary", "done", "error"})
    /\ [][pc # "error"]_vars

\* the decode failed after the connection had been opened
C7_Witness == exc = "DecodeError" /\ pc = "error" /\ conn = "closed"

\* C8: every record has a non-empty location; the location of a candidate
\* is set only by a text holding "Chiang Mai" and "province", and a
\* candidate appended with its location still empty gets "Chiang Mai".
C8_LocationNeverEmpty ==
    /\ [](\A r \in Records(races) \cup Records(unique) : r.location # <<>>)
    /\ [][/\ races' # races =>
              races' = Append(races,
                              IF current_race[1].location = <<>>
                              THEN [current_race[1] EXCEPT !.location = ChiangMai]
                              ELSE current_race[1])
          /\ (/\ current_race # None
              /\ current_race' # None
              /\ current_race[1].location = <<>>
              /\ current_race'[1].location # <<>>) =>
                 \E e \in NextEvents :
                    /\ e.type = "data"
                    /\ IsLocationText(Strip(e.data))
                    /\ current_race' = DataRace(current_race, e.data, padyear)]_vars

\* a page without any location text yielded records, all located "Chiang Mai"
C8_Witness ==
    /\ Returned
    /\ page \in RegionPages
    /\ unique # <<>>
    /\ \A r \in Records(unique) : r.location = ChiangMai

\* a text of one of the two date forms, and the fields it names
IsDateText(text) == MatchMonthDayYear(text) \/ MatchDayMonthYear(text)

TextFields(text) ==
    IF MatchMonthDayYear(text) THEN FieldsMonthDayYear(text) ELSE FieldsDayMonthYear(text)

\* YYYY-MM-DD
ISODate(f) == Pad4(f.year) \o <<Hyphen>> \o Pad2(f.month) \o <<Hyphen>> \o Pad2(f.day)

\* C9: a text "D1-D2 Month YYYY" or "Month D, YYYY" seen by an open
\* candidate with no date yet sets date to the ISO date of day D1 (of day D)
\* of that month and year and dateDisplay to the text.
C9_DateIsIsoOfFirstDay ==
    [][\A t \in Texts :
          (/\ pc = "feed"
           /\ Text(t) \in NextEvents
           /\ current_race # None
           /\ current_race[1].date = <<>>
           /\ IsDateText(Strip(t))
           /\ StrptimeOk(TextFields(Strip(t)))
           /\ nfed' = nfed + 1
           /\ races' = races
           /\ current_race' = DataRace(current_race, t, padyear))
          => /\ current_race'[1].date = ISODate(TextFields(Strip(t)))
             /\ current_race'[1].dateDisplay = Strip(t)]_vars

IsDigitCode(c) == c >= Digit(0) /\ c <= Digit(9)

\* a string of the form YYYY-MM-DD
IsISOForm(s) ==
    /\ Len(s) = 10
    /\ s[5] = Hyphen /\ s[8] = Hyphen
    /\ \A i \in {1, 2, 3, 4, 6, 7, 9, 10} : IsDigitCode(s[i])

\* the fields a string of the form YYYY-MM-DD parses to
ParseISO(s) ==
    [year |-> Value([i \in 1..4 |-> s[i] - Digit(0)]),
     month |-> Value(<<s[6] - Digit(0), s[7] - Digit(0)>>),
     day |-> Value(<<s[9] - Digit(0), s[10] - Digit(0)>>)]

\* C10: every non-empty date of a candidate or record is a valid calendar
\* date of the form YYYY-MM-DD that parses back to the fields of the text
\* that produced it; a text naming an impossible day leaves date empty.
C10_DateRoundTrips ==
    \A r \in Records(current_race) \cup Records(races) \cup Records(unique) :
        /\ r.date # <<>> =>
              /\ IsISOForm(r.date)
              /\ ParseISO(r.date) = TextFields(r.dateDisplay)
              /\ StrptimeOk(ParseISO(r.date))
        /\ (r.dateDisplay # <<>> /\ ~StrptimeOk(TextFields(r.dateDisplay))) => r.date = <<>>

\* C11: a document without a qualifying anchor open-tag yields an empty
\* list: in Idle no event changes the list, and only a qualifying anchor
\* open-tag (never a text, an image or a close-tag) fills the candidate slot.
C11_NoQualifyingAnchorNoRecord ==
    /\ [](page \in NoAnchorPages => races = <<>> /\ unique = <<>> /\ current_race = None)
    /\ [][current_race = None =>
             /\ races' = races
             /\ current_race' # None =>
                   /\ QualifyingHref(Tail(current_race'[1].url))
                   /\ \E h \in Hrefs : StartA(h) \in NextEvents /\ current_race' = <<NewRace(h)>>]_vars

\* C12: when the run has ended, on success or on any failure, neither the
\* connection nor the output file is open.
C12_ResourcesClosedAtExit ==
    pc \in {"done", "error"} => conn # "open" /\ file # "open"

\* the write failed after the connection and the file had been opened
C12_Witness ==
    /\ pc = "error"
    /\ exc = "FileWriteError"
    /\ conn = "closed"
    /\ file = "closed"

\* C13: the close-tag of the anchor, processed while the candidate lacks a
\* name or a date, discards the candidate and leaves the parser Idle with
\* the list unchanged.
C13_IncompleteCandidateDiscarded ==
    [][(/\ pc = "feed"
        /\ html # <<>>
        /\ Head(html) = End("a")
        /\ current_race # None
        /\ (current_race[1].name = <<>> \/ current_race[1].date = <<>>))
          => (current_race' = None /\ races' = races)]_vars

\* C14: the close-tag of an element nested inside the anchor never
\* finalizes the candidate: on a card page the candidate stays open and the
\* list stays unchanged at every </div>.
C14_NestedCloseTagKeepsCandidate ==
    [][(/\ pc = "feed"
        /\ page \in CardPages
        /\ html # <<>>
        /\ Head(html) = End("div")
        /\ current_race # None)
          => (current_race' # None /\ races' = races)]_vars

\* C15: while a candidate is open, a field that is non-empty is not changed
\* by any later event.
C15_FieldsWrittenOnce ==
    [][(current_race # None /\ current_race' # None) =>
          /\ current_race[1].name # <<>> => current_race'[1].name = current_race[1].name
          /\ current_race[1].image # <<>> => current_race'[1].image = current_race[1].image
          /\ current_race[1].date # <<>> => current_race'[1].date = current_race[1].date
          /\ current_race[1].dateDisplay # <<>>
                => current_race'[1].dateDisplay = current_race[1].dateDisplay
          /\ current_race[1].location # <<>>
                => current_race'[1].location = current_race[1].location]_vars

\* C15 as amended: while a candidate is open, name, image, date and location
\* are not changed once they are non-empty, and dateDisplay is not changed
\* once date is non-empty.
C15_WrittenOnceDisplayWithDate ==
    [][(current_race # None /\ current_race' # None) =>
          /\ current_race[1].name # <<>> => current_race'[1].name = current_race[1].name
          /\ current_race[1].image # <<>> => current_race'[1].image = current_race[1].image
          /\ current_race[1].date # <<>> =>
                /\ current_race'[1].date = current_race[1].date
                /\ current_race'[1].dateDisplay = current_race[1].dateDisplay
          /\ current_race[1].location # <<>>
                => current_race'[1].location = current_race[1].location]_vars

\* an open candidate named by a date-shaped text that did not parse, whose
\* dateDisplay and date come from a later text, after further events
C15_Witness ==
    /\ current_race # None
    /\ current_race[1].date # <<>>
    /\ IsDateText(current_race[1].name)
    /\ ~StrptimeOk(TextFields(current_race[1].name))
    /\ current_race[1].dateDisplay # current_race[1].name
    /\ current_race[1].image # <<>>
    /\ current_race[1].location # <<>>

IsPermutation(a, b) ==
    /\ Len(a) = Len(b)
    /\ \E f \in [1..Len(a) -> 1..Len(a)] :
          /\ \A i, j \in 1..Len(a) : f[i] = f[j] => i = j
          /\ \A i \in 1..Len(a) : a[i] = b[f[i]]

\* C17: the list scrape returns is a permutation of the parser's list: the
\* second deduplication pass removes nothing.
C17_SecondPassRemovesNothing == Returned => IsPermutation(unique, races)

\* a page with two complete regions for one url was parsed and returned
C17_Witness ==
    /\ page \in DupPages
    /\ Returned
    /\ Len(races) = 1
    /\ unique = races

\* the record a page of DupPages must yield: the one of its first region
FirstRegionRecord(p) ==
    [name |-> Strip(p[3].data),
     url |-> BASE \o p[1].href,
     image |-> <<>>,
     date |-> Strftime(TextFields(Strip(p[6].data)), padyear),
     dateDisplay |-> Strip(p[6].data),
     location |-> ChiangMai]

\* C18: a close-tag on a complete candidate whose url is already in the list
\* drops the candidate, leaves the parser Idle and the list unchanged; the
\* record kept for a url is the first one finalized.
C18_DuplicateDroppedFirstKept ==
    /\ []((page \in DupPages /\ Returned) => unique = <<FirstRegionRecord(page)>>)
    /\ [][(/\ pc = "feed"
           /\ current_race # None
           /\ current_race[1].name # <<>>
           /\ current_race[1].date # <<>>
           /\ \E i \in 1..Len(races) : races[i].url = current_race[1].url
           /\ \/ html # <<>> /\ Head(html).type = "end"
              \/ /\ html = <<>>
                 /\ nfed' = nfed + 1
                 /\ current_race' = EndTagRace(current_race)
                 /\ races' = EndTagRaces(current_race, races))
             => (current_race' = None /\ races' = races)]_vars

\* the second region of a page of DupPages was closed and the run ended with
\* the record of the first region alone
C18_Witness ==
    /\ page \in DupPages
    /\ pc = "done"
    /\ current_race = None
    /\ dumped = <<FirstRegionRecord(page)>>

\* C19: in every record, and in a candidate whose date is set, dateDisplay
\* is the text whose parse produced date.
C19_DisplayIsTheParsedText ==
    \A r \in Records(current_race) \cup Records(races) \cup Records(unique) :
        r.date # <<>> =>
            /\ IsDateText(r.dateDisplay)
            /\ StrptimeOk(TextFields(r.dateDisplay))
            /\ r.date = Strftime(TextFields(r.dateDisplay), padyear)

\* a record whose name is a date-shaped text that did not parse: that text
\* had set dateDisplay before the text that gave the date
C19_Witness ==
    /\ races # <<>>
    /\ IsDateText(races[1].name)
    /\ ~StrptimeOk(TextFields(races[1].name))
    /\ races[1].dateDisplay # races[1].name

====
